---- MODULE Spec2Model ----
(***************************************************************************)
(* Model of the transcoder mirror (ein-shved/transcoder).                  *)
(*                                                                         *)
(*  - the policy decision engine of src/src/transcoder.rs: requirement     *)
(*    matching, per-stream tasks, per-requirement and per-file verdicts,   *)
(*    the output plan;                                                     *)
(*  - the mirror controller of src/src/watcher.rs together with the        *)
(*    transcode-or-link step of src/src/transcoder.rs.                     *)
(***************************************************************************)
EXTENDS Naturals, Sequences, FiniteSets, TLC

VARIABLES
    config,     \* CONFIG: the global TranscoderConfig
    input,      \* the probed stream inventory (context::Input) of the file under decision
    src_ext,    \* extension of the path handed to need_to_transcode (NoExt = none)
    phase,      \* "new" before the decision ran, "done" after
    tasks,      \* MediaFileTasks.tasks: one RequirementTaks per requirement, in set order
    need,       \* result of MediaFileTasks::need_to_transcode
    plan,       \* MediaOutputTasks.tasks: per stream, its StreamOutputTask
    fs,         \* the filesystem: path -> entry (source and destination trees)
    events,     \* inotify events delivered to the watcher and not yet consumed
    running,    \* spawned tokio tasks in flight: id -> task
    lock,       \* holder of the CONFIG mutex (0 = free)
    poisoned,   \* the CONFIG mutex is poisoned (a holder panicked)
    streak,     \* bootstrap walks completed in a row, clean and undisturbed
    nchanges,   \* changes the external writer made to the source tree
    nboots,     \* times the process was started
    descriptors, \* Watcher.descriptors: the watch pairs added
    configured, \* main has called TranscoderConfig::set
    watching    \* the watch of the pair is added and the watch loop runs

pvars == <<config, input, src_ext, phase, tasks, need, plan>>

dvars == <<input, src_ext, phase, tasks, need, plan>>

cvars == <<fs, events, running, lock, poisoned, streak, nchanges, nboots, descriptors, configured, watching>>

vars == <<config, input, src_ext, phase, tasks, need, plan,
          fs, events, running, lock, poisoned, streak, nchanges, nboots, descriptors, configured, watching>>

----------------------------------------------------------------------------
(* Bounds of the model *)

MaxStreams == 2
MaxCodecs == 2
MaxReq == 2
MaxFormats == 1
MaxChanges == 2
MaxBoots == 2

----------------------------------------------------------------------------
(* Option encodings *)

NoLang == "<none>"
NoExt == "<none>"
NoCodec == [name |-> "<none>", medium |-> "Unknown", enc |-> FALSE]

(* The codec catalog (ffmpeg): name, media kind, and whether encoder::find *)
(* finds an encoder for it.                                                *)
Codecs ==
    { [name |-> "h264",   medium |-> "Video", enc |-> TRUE],
      [name |-> "aac",    medium |-> "Audio", enc |-> TRUE],
      [name |-> "mp3",    medium |-> "Audio", enc |-> TRUE],
      [name |-> "atrac3", medium |-> "Audio", enc |-> FALSE],
      [name |-> "subrip", medium |-> "Subtitle", enc |-> TRUE] }

CodecByName(n) == CHOOSE c \in Codecs : c.name = n

Languages == <<"eng", "rus">>

Levels == <<"All", "AtLeastOne", "WithOther", "Ignore", "Decline">>

TypeTags == <<"Video", "Audio", "Subtitle">>

(* Position of x in the sequence s: the rank the derived Ord gives a variant *)
Rank(s, x) == CHOOSE i \in 1..Len(s) : s[i] = x

Range(s) == { s[i] : i \in 1..Len(s) }

----------------------------------------------------------------------------
(* Requirement ordering *)

(* mutation of prioritize: the order Option<T> derives, None before Some *)
prioritize_NoneFirst(lh, rh) ==
    IF lh # NoLang
    THEN IF rh # NoLang
         THEN IF Rank(Languages, lh) < Rank(Languages, rh) THEN "Less"
              ELSE IF lh = rh THEN "Equal" ELSE "Greater"
         ELSE "Greater"
    ELSE IF rh = NoLang THEN "Equal" ELSE "Less"

(* prioritize: Some before None; -1 less, 0 equal, 1 greater encoded as    *)
(* "Less", "Equal", "Greater"                                              *)
prioritize(lh, rh) ==
    IF lh # NoLang
    THEN IF rh # NoLang
         THEN IF Rank(Languages, lh) < Rank(Languages, rh) THEN "Less"
              ELSE IF lh = rh THEN "Equal" ELSE "Greater"
         ELSE "Less"
    ELSE IF rh = NoLang THEN "Equal" ELSE "Greater"

(* derived Ord of RequirementType: variant order, then the payload's cmp *)
RequirementTypeCmp(a, b) ==
    IF Rank(TypeTags, a.type) < Rank(TypeTags, b.type) THEN "Less"
    ELSE IF Rank(TypeTags, a.type) > Rank(TypeTags, b.type) THEN "Greater"
    ELSE IF a.type = "Video" THEN "Equal"
    ELSE prioritize(a.language, b.language)

(* derived Ord of RequirementLevel: declaration order *)
RequirementLevelCmp(a, b) ==
    IF Rank(Levels, a) < Rank(Levels, b) THEN "Less"
    ELSE IF a = b THEN "Equal" ELSE "Greater"

(* derived Ord of Requirement: lexicographic on (what, level) *)
RequirementCmp(a, b) ==
    LET w == RequirementTypeCmp(a.what, b.what)
    IN  IF w # "Equal" THEN w ELSE RequirementLevelCmp(a.level, b.level)

(* iteration order of the BTreeSet<Requirement> *)
RECURSIVE BTreeSetIter(_)
BTreeSetIter(S) ==
    IF S = {} THEN <<>>
    ELSE LET m == CHOOSE x \in S : \A y \in S : RequirementCmp(x, y) # "Greater"
         IN  <<m>> \o BTreeSetIter(S \ {m})

----------------------------------------------------------------------------
(* Policy decision engine *)

(* find_codec of a stream's codec id: the stream carries the lookup result *)
find_codec(stream) == stream.codec

(* PartialEq<Stream> for RequirementType *)
RequirementTypeEqStream(what, stream) ==
    LET codec == find_codec(stream)
    IN  IF codec # NoCodec
        THEN CASE what.type = "Video" -> codec.medium = "Video"
               [] what.type = "Audio" ->
                    /\ codec.medium = "Audio"
                    /\ (what.language = NoLang \/ stream.language = what.language)
               [] what.type = "Subtitle" ->
                    /\ codec.medium = "Subtitle"
                    /\ (what.language = NoLang \/ stream.language = what.language)
        ELSE FALSE

(* PartialEq<Stream> for Requirement *)
RequirementEqStream(requirement, stream) ==
    RequirementTypeEqStream(requirement.what, stream)

NoAction == [kind |-> "None", codec |-> NoCodec]
Supported == [kind |-> "Supported", codec |-> NoCodec]
Transcode(c) == [kind |-> "Transcode", codec |-> c]

(* the loop of TranscodeTask::new over config.supported_codecs, from entry i *)
RECURSIVE ScanSupported(_, _, _, _)
ScanSupported(codec, supported, i, action) ==
    IF i > Len(supported) THEN action
    ELSE IF codec # NoCodec
         THEN IF codec = supported[i] THEN Supported
              ELSE IF action = NoAction /\ supported[i].medium = codec.medium
                   THEN ScanSupported(codec, supported, i + 1, Transcode(supported[i]))
                   ELSE ScanSupported(codec, supported, i + 1, action)
         ELSE ScanSupported(codec, supported, i + 1, action)

(* TranscodeTask::new: the action of the stream at index, NoAction = None *)
TranscodeTaskNew(stream, index, cfg) ==
    [stream_index |-> index,
     action |-> ScanSupported(find_codec(stream), cfg.supported_codecs, 1, NoAction)]

(* TranscodeTask::need_to_transcode *)
TaskNeedToTranscode(task) == task.action # Supported

(* RequirementTaks::new: the tasks of the streams the requirement matches *)
RECURSIVE CollectTasks(_, _, _, _)
CollectTasks(cfg, streams, requirement, i) ==
    IF i > Len(streams) THEN <<>>
    ELSE LET task == TranscodeTaskNew(streams[i], i, cfg)
             rest == CollectTasks(cfg, streams, requirement, i + 1)
         IN  IF RequirementEqStream(requirement, streams[i]) /\ task.action # NoAction
             THEN <<task>> \o rest
             ELSE rest

RequirementTaksNew(cfg, streams, requirement) ==
    [requirement |-> requirement,
     tasks |-> CollectTasks(cfg, streams, requirement, 1)]

(* mutation of ScanTasks: All waits for every task to need transcoding *)
ScanTasks_AllMustFail(level, ts, i) ==
    IF level = "All"
    THEN \A j \in i..Len(ts) : ts[j].action # Supported
    ELSE IF level = "AtLeastOne"
         THEN \A j \in i..Len(ts) : ts[j].action # Supported
         ELSE FALSE

(* mutation of ScanTasks: the first task that needs transcoding decides,   *)
(* whatever the level                                                      *)
ScanTasks_FirstDecides(level, ts, i) ==
    IF level = "All"
    THEN \E j \in i..Len(ts) : ts[j].action # Supported
    ELSE IF level = "AtLeastOne"
         THEN i <= Len(ts) /\ ts[i].action # Supported
         ELSE FALSE

(* the loop of RequirementTaks::need_to_transcode, from task i *)
RECURSIVE ScanTasks(_, _, _)
ScanTasks(level, ts, i) ==
    IF i > Len(ts) THEN level = "AtLeastOne"
    ELSE IF TaskNeedToTranscode(ts[i])
         THEN IF level = "All" THEN TRUE ELSE ScanTasks(level, ts, i + 1)
         ELSE IF level = "AtLeastOne" THEN FALSE ELSE ScanTasks(level, ts, i + 1)

(* mutation of RequirementNeedToTranscode: Decline is not among the levels *)
(* that return early and is scanned the way All is                         *)
RequirementNeedToTranscode_DeclineScans(rt) ==
    LET level == rt.requirement.level
    IN  IF \/ rt.tasks = <<>>
           \/ level = "WithOther"
           \/ level = "Ignore"
        THEN FALSE
        ELSE IF level = "AtLeastOne"
             THEN \A j \in 1..Len(rt.tasks) : rt.tasks[j].action # Supported
             ELSE \E j \in 1..Len(rt.tasks) : rt.tasks[j].action # Supported

(* RequirementTaks::need_to_transcode *)
RequirementNeedToTranscode(rt) ==
    LET level == rt.requirement.level
    IN  IF \/ rt.tasks = <<>>
           \/ level = "WithOther"
           \/ level = "Ignore"
           \/ level = "Decline"
        THEN FALSE
        ELSE ScanTasks(level, rt.tasks, 1)

(* MediaFileTasks::new *)
MediaFileTasksNew(streams, cfg) ==
    LET reqs == BTreeSetIter(cfg.required)
    IN  [i \in 1..Len(reqs) |-> RequirementTaksNew(cfg, streams, reqs[i])]

(* str::to_lowercase on the extensions of the model *)
to_lowercase(s) ==
    CASE s = "MP4" -> "mp4"
      [] s = "MKV" -> "mkv"
      [] OTHER -> s

(* mutation of get_format: the extension is taken as it is written *)
get_format_Raw(ext) == ext

(* get_format: Option<String>, the lower-cased extension of the path *)
get_format(ext) == IF ext # NoExt THEN to_lowercase(ext) ELSE NoExt

(* mutation of MediaFileNeedToTranscode: a supported container settles the *)
(* decision without asking the requirements                                *)
MediaFileNeedToTranscode_FormatOnly(cfg, ts, ext) ==
    LET format == get_format(ext)
        format_supported ==
            \E i \in 1..Len(cfg.supported_formats) : cfg.supported_formats[i] = format
    IN  IF format # NoExt
        THEN ~format_supported
        ELSE \E i \in 1..Len(ts) : RequirementNeedToTranscode(ts[i])

(* mutation of MediaFileNeedToTranscode: the verdict of the last           *)
(* requirement replaces those of the earlier ones                          *)
MediaFileNeedToTranscode_LastDecides(cfg, ts, ext) ==
    LET format == get_format(ext)
        format_supported ==
            \E i \in 1..Len(cfg.supported_formats) : cfg.supported_formats[i] = format
    IN  IF format # NoExt /\ ~format_supported
        THEN TRUE
        ELSE Len(ts) > 0 /\ RequirementNeedToTranscode(ts[Len(ts)])

(* MediaFileTasks::need_to_transcode *)
MediaFileNeedToTranscode(cfg, ts, ext) ==
    LET format == get_format(ext)
        format_supported ==
            \E i \in 1..Len(cfg.supported_formats) : cfg.supported_formats[i] = format
    IN  IF format # NoExt /\ ~format_supported
        THEN TRUE
        ELSE \E i \in 1..Len(ts) : RequirementNeedToTranscode(ts[i])

(* MediaOutputTasks::new, the search for final_task of the stream at index: *)
(* the first task for the stream, requirements taken in order               *)
RECURSIVE FindFinalTask(_, _, _)
FindFinalTask(ts, index, r) ==
    IF r > Len(ts) THEN NoAction
    ELSE LET hit == { j \in 1..Len(ts[r].tasks) : ts[r].tasks[j].stream_index = index }
         IN  IF hit # {}
             THEN ts[r].tasks[CHOOSE j \in hit : \A k \in hit : j <= k].action
             ELSE FindFinalTask(ts, index, r + 1)

(* StreamOutputTask::new up to add_stream: the codec the output stream is  *)
(* opened with and whether the stream is re-encoded. encoder::find(..)     *)
(* .unwrap() panics when the chosen codec has no encoder.                  *)
StreamOutputTaskNew(index, decodec, task) ==
    LET target == IF task.kind = "Transcode" THEN task.codec ELSE NoCodec
        encodec == IF target # NoCodec THEN target ELSE decodec
    IN  [input_index |-> index,
         need_to_transcode |-> (target # NoCodec /\ decodec # NoCodec),
         encodec |-> encodec,
         panic |-> (encodec # NoCodec /\ ~encodec.enc)]

(* mutation of MediaOutputTasksNew: one StreamOutputTask per task of every *)
(* requirement, pushed to a list instead of inserted by stream index       *)
MediaOutputTasksNew_PerTask(ts, streams) ==
    LET Flat[r \in 0..Len(ts)] ==
            IF r = 0 THEN <<>>
            ELSE Flat[r - 1] \o
                 [j \in 1..Len(ts[r].tasks) |->
                    LET task == ts[r].tasks[j]
                    IN  StreamOutputTaskNew(task.stream_index,
                                            find_codec(streams[task.stream_index]),
                                            task.action)]
    IN  Flat[Len(ts)]

(* MediaOutputTasks::new: one StreamOutputTask per stream of the input *)
MediaOutputTasksNew(ts, streams) ==
    [i \in 1..Len(streams) |->
        StreamOutputTaskNew(i, find_codec(streams[i]), FindFinalTask(ts, i, 1))]

(* deserialize_formats: the configured extensions, lower-cased *)
deserialize_formats(raw) == [i \in 1..Len(raw) |-> to_lowercase(raw[i])]

----------------------------------------------------------------------------
(* Input spaces *)

RECURSIVE SeqsUpTo(_, _)
SeqsUpTo(S, n) ==
    IF n = 0 THEN { <<>> }
    ELSE LET shorter == SeqsUpTo(S, n - 1)
         IN  shorter \cup { Append(s, x) : s \in shorter, x \in S }

NoDup(s) == \A i, j \in 1..Len(s) : i # j => s[i] # s[j]

SubsetsUpTo(S, n) == { T \in SUBSET S : Cardinality(T) <= n }

Stream(name, lang) == [codec |-> CodecByName(name), language |-> lang]

StreamChoices ==
    { [codec |-> CodecByName("h264"), language |-> NoLang],
      [codec |-> CodecByName("aac"),  language |-> "eng"],
      [codec |-> CodecByName("mp3"),  language |-> "eng"],
      [codec |-> CodecByName("mp3"),  language |-> "rus"],
      [codec |-> CodecByName("subrip"), language |-> "eng"],
      [codec |-> NoCodec,             language |-> NoLang] }

WhatChoices ==
    { [type |-> "Video",    language |-> NoLang],
      [type |-> "Audio",    language |-> NoLang],
      [type |-> "Audio",    language |-> "eng"],
      [type |-> "Subtitle", language |-> NoLang],
      [type |-> "Subtitle", language |-> "eng"] }

Requirements == { [what |-> w, level |-> l] : w \in WhatChoices, l \in Range(Levels) }

CodecLists == { s \in SeqsUpTo(Codecs, MaxCodecs) : NoDup(s) }

Inventories == SeqsUpTo(StreamChoices, MaxStreams)

RawFormats == {"mp4", "MKV"}

Extensions == {NoExt, "mp4", "mkv", "MKV", "avi"}

MkConfig(formats, codecs, required, backup) ==
    [supported_formats |-> deserialize_formats(formats),
     supported_codecs |-> codecs,
     required |-> required,
     backup_symlink |-> backup]

----------------------------------------------------------------------------
(* Filesystem *)

NoPath == [root |-> "", name |-> "", ext |-> NoExt]

WatchPairs == { [src |-> "src", dst |-> "dst"] }

(* a pair whose destination root is its source root *)
SelfPairs == { [src |-> "src", dst |-> "src"] }

SrcFiles ==
    { [root |-> "src", name |-> "a", ext |-> "mkv"],
      [root |-> "src", name |-> "b", ext |-> "mp4"] }

(* a directory of the source tree, and a file inside it *)
SrcDirs == { [root |-> "src", name |-> "d", ext |-> NoExt] }

Nested == { [root |-> "src", name |-> "d/c", ext |-> "mkv"] }

(* a symbolic link of the source tree whose target exists nowhere *)
SrcLinks == { [root |-> "src", name |-> "l", ext |-> "mkv"] }

Gone == [root |-> "src", name |-> "gone", ext |-> "mkv"]

(* a path outside every source root *)
Stray == { [root |-> "other", name |-> "a", ext |-> "mkv"] }

(* the entries a walk of the source root can come upon *)
SrcTree == SrcFiles \cup Nested \cup SrcLinks \cup SrcDirs

(* Path::parent within the tree; NoPath stands for the root itself *)
Parent(p) ==
    IF p.name = "d/c" THEN [p EXCEPT !.name = "d", !.ext = NoExt] ELSE NoPath

(* mutation of with_extension: the extension is left as it was *)
with_extension_Keep(p, ext) == p

(* Path::with_extension *)
with_extension(p, ext) == [p EXCEPT !.ext = ext]

(* mutation of SamePath: no destination counts as the source itself *)
SamePath_Never(dst, f) == FALSE

(* do_action: dst == f, the composed destination is the source path *)
SamePath(dst, f) == dst = f

(* Path::strip_prefix followed by Path::join: the path under the other root *)
Rebase(f, dst) == [f EXCEPT !.root = dst]

DstPaths ==
    { with_extension(Rebase(f, wp.dst), e) :
        f \in SrcFiles, wp \in WatchPairs, e \in {"mkv", "mp4"} }

(* the destination paths of the directory, the nested file and the link *)
TreePaths ==
    SrcDirs \cup Nested \cup SrcLinks \cup Stray
      \cup { with_extension(Rebase(f, wp.dst), e) :
               f \in Nested \cup SrcLinks, wp \in WatchPairs, e \in {"mkv", "mp4"} }
      \cup { Rebase(d, wp.dst) : d \in SrcDirs, wp \in WatchPairs }

AllPaths == SrcFiles \cup DstPaths \cup TreePaths

Absent == [kind |-> "none", content |-> "", target |-> NoPath, by |-> ""]
(* a regular file; target names the source a transcoded output was made    *)
(* of, by the kind of task that made it ("event", "bootstrap")             *)
File(c, origin, by) == [kind |-> "file", content |-> c, target |-> origin, by |-> by]
Link(t, by) == [kind |-> "link", content |-> "", target |-> t, by |-> by]
Dir(by) == [kind |-> "dir", content |-> "", target |-> NoPath, by |-> by]

(* what the external writer puts into a source file *)
Contents == {"opaque", "av", "mp3"}

(* mutation of Probes: every content opens as a media container *)
Probes_Always(c) == TRUE

(* ffmpeg::format::input on the content: the stream inventory, if any *)
Probes(c) == c \in {"av", "mp3"}

StreamsOf(c) ==
    IF c = "av" THEN <<Stream("h264", NoLang), Stream("aac", "eng")>>
    ELSE IF c = "mp3" THEN <<Stream("mp3", "eng")>>
    ELSE <<>>

(* the path a lookup that follows symbolic links ends at *)
Resolve(p) == IF fs[p].kind = "link" THEN fs[p].target ELSE p

(* Path::exists, fs::metadata(..).is_ok(): follows symbolic links *)
Exists(p) == Resolve(p) \in DOMAIN fs /\ fs[Resolve(p)].kind # "none"

(* mutation of is_dir: nothing counts as a directory *)
is_dir_Never(p) == FALSE

(* mutation of is_dir: a path whose metadata cannot be read counts as a file *)
is_dir_Strict(p) == Exists(p) /\ fs[Resolve(p)].kind = "dir"

(* Watcher::is_dir: a path whose metadata cannot be read counts as a directory *)
is_dir(p) == IF Exists(p) THEN fs[Resolve(p)].kind = "dir" ELSE TRUE

(* mutation of InDir: the walk does not descend *)
InDir_TopOnly(f) == Parent(f) = NoPath

(* check_f: the entry is listed by read_dir of a directory the walk enters *)
InDir(f) == Parent(f) = NoPath \/ fs[Parent(f)].kind = "dir"

(* mutation of strip_prefix: every path counts as being under the root *)
strip_prefix_Any(f, src) == TRUE

(* f.strip_prefix(src).is_ok(): the path is under the source root *)
strip_prefix(f, src) == f.root = src

(* prepare_dirs: create_dir_all(parent) fails on a parent that is no directory *)
PrepareOk(t, dst) ==
    Parent(dst) = NoPath \/ t[Parent(dst)].kind \in {"none", "dir"}

(* prepare_dirs: the tree after create_dir_all(parent) *)
PrepareDirs(t, dst, by) ==
    IF Parent(dst) # NoPath /\ t[Parent(dst)].kind = "none"
    THEN [t EXCEPT ![Parent(dst)] = Dir(by)]
    ELSE t

----------------------------------------------------------------------------
(* Tasks *)

CreateMask == {"CREATE", "MOVED_TO", "CLOSE_WRITE"}
DeleteMask == {"DELETE", "MOVED_FROM"}

TaskIds == 1..(MaxChanges + 1)

NewTask(kind, action, f, wp, check_exists) ==
    [kind |-> kind, action |-> action, f |-> f, wp |-> wp,
     check_exists |-> check_exists,
     pc |-> IF kind = "bootstrap" THEN "walk" ELSE "start",
     dst |-> NoPath, dst_p |-> NoPath, content |-> "",
     visited |-> {}, quiet |-> running = << >>,
     ops |-> 0, fails |-> 0]

FreeId ==
    CHOOSE i \in TaskIds :
        /\ i \notin DOMAIN running
        /\ \A j \in TaskIds : j \notin DOMAIN running => i <= j

(* every task in flight has company from now on *)
Disturbed(r) == [i \in DOMAIN r |-> [r[i] EXCEPT !.quiet = FALSE]]

(* the branch of do_action an event mask selects *)
Class(mask) ==
    IF mask \in DeleteMask THEN "delete"
    ELSE IF mask \in CreateMask THEN "create" ELSE "other"

(* tokio::spawn *)
Spawn(t) ==
    running' = [i \in DOMAIN running \cup {FreeId} |->
                   IF i = FreeId THEN t ELSE [running[i] EXCEPT !.quiet = FALSE]]

Drop(r, id) == [i \in DOMAIN r \ {id} |-> r[i]]

(* do_action returns in task id, whose record is t, after op ("skip",      *)
(* "delete", "link", "transcode") ended res ("ok", "err", "panic"): an     *)
(* event task ends, the bootstrap walk goes on                             *)
Return(id, t, op, res) ==
    running' =
          IF t.kind = "bootstrap" /\ res # "panic"
          THEN [running EXCEPT ![id] =
                   [t EXCEPT !.pc = "walk", !.f = NoPath, !.dst = NoPath,
                             !.dst_p = NoPath, !.content = "",
                             !.ops = IF op \in {"link", "transcode"} THEN 1 ELSE t.ops,
                             !.fails = IF res = "err" THEN 1 ELSE t.fails]]
          ELSE Drop(running, id)

----------------------------------------------------------------------------
(* The external writer and the watcher *)

(* self.descriptors[event.wd()]: the pair whose watch reports the path *)
PairOf(f) == CHOOSE wp \in descriptors : wp.src = f.root

(* a file appears in the source tree (created, or moved in) *)
ExtCreate(f, c, m) ==
    /\ watching
    /\ nchanges < MaxChanges
    /\ fs[f].kind = "none"
    /\ m \in {"CREATE", "MOVED_TO"}
    /\ fs' = [fs EXCEPT ![f] = File(c, NoPath, "")]
    /\ events' = Append(events, [mask |-> m, path |-> f, wp |-> PairOf(f)])
    /\ running' = Disturbed(running)
    /\ streak' = 0
    /\ nchanges' = nchanges + 1
    /\ UNCHANGED <<config, lock, poisoned, nboots, descriptors, configured, watching>>
    /\ UNCHANGED dvars

(* a writer rewrites a source file and closes it *)
ExtRewrite(f, c) ==
    /\ watching
    /\ nchanges < MaxChanges
    /\ fs[f].kind = "file"
    /\ fs[f].content # c
    /\ fs' = [fs EXCEPT ![f] = File(c, NoPath, "")]
    /\ events' = Append(events, [mask |-> "CLOSE_WRITE", path |-> f, wp |-> PairOf(f)])
    /\ running' = Disturbed(running)
    /\ streak' = 0
    /\ nchanges' = nchanges + 1
    /\ UNCHANGED <<config, lock, poisoned, nboots, descriptors, configured, watching>>
    /\ UNCHANGED dvars

(* a file leaves the source tree (deleted, or moved out) *)
ExtRemove(f, m) ==
    /\ watching
    /\ nchanges < MaxChanges
    /\ fs[f].kind = "file"
    /\ m \in DeleteMask
    /\ fs' = [fs EXCEPT ![f] = Absent]
    /\ events' = Append(events, [mask |-> m, path |-> f, wp |-> PairOf(f)])
    /\ running' = Disturbed(running)
    /\ streak' = 0
    /\ nchanges' = nchanges + 1
    /\ UNCHANGED <<config, lock, poisoned, nboots, descriptors, configured, watching>>
    /\ UNCHANGED dvars

(* a directory appears in the source root: made there, or moved in with a  *)
(* file inside                                                             *)
ExtMkdir(d, m, populated) ==
    /\ watching
    /\ nchanges < MaxChanges
    /\ fs[d].kind = "none"
    /\ m \in {"CREATE", "MOVED_TO"}
    /\ populated => m = "MOVED_TO"
    /\ fs' = [p \in DOMAIN fs |->
                 IF p = d THEN Dir("")
                 ELSE IF populated /\ p \in Nested /\ Parent(p) = d
                 THEN File("av", NoPath, "")
                 ELSE fs[p]]
    /\ events' = Append(events, [mask |-> m, path |-> d, wp |-> PairOf(d)])
    /\ running' = Disturbed(running)
    /\ streak' = 0
    /\ nchanges' = nchanges + 1
    /\ UNCHANGED <<config, lock, poisoned, nboots, descriptors, configured, watching>>
    /\ UNCHANGED dvars

(* the event masks the watch loop can be handed: the five asked for in     *)
(* Watcher::add and one inotify reports unasked                            *)
EventMasks == CreateMask \cup DeleteMask \cup {"IGNORED"}

(* the watch of a pair reports an event whose path is not under the source *)
(* root of the pair                                                        *)
ExtStray(f, m) ==
    /\ watching
    /\ nchanges < MaxChanges
    /\ m \in EventMasks
    /\ \E wp \in descriptors :
          /\ f.root # wp.src
          /\ events' = Append(events, [mask |-> m, path |-> f, wp |-> wp])
    /\ running' = Disturbed(running)
    /\ streak' = 0
    /\ nchanges' = nchanges + 1
    /\ UNCHANGED <<config, fs, lock, poisoned, nboots, descriptors, configured, watching>>
    /\ UNCHANGED dvars

(* TranscoderConfig::default(), the value CONFIG is created with *)
DefaultConfig ==
    [supported_formats |-> <<>>, supported_codecs |-> <<>>,
     required |-> {}, backup_symlink |-> FALSE]

(* mutation of Set: the policy can be set again while main adds the pairs *)
Set_Again(c) ==
    /\ ~watching
    /\ config' = c
    /\ configured' = TRUE
    /\ UNCHANGED <<fs, events, running, lock, poisoned, streak, nchanges, nboots,
                   descriptors, watching>>
    /\ UNCHANGED dvars

(* main: TranscoderConfig::set(config), once the configuration file is read *)
Set(c) ==
    /\ ~configured
    /\ ~watching
    /\ config' = c
    /\ configured' = TRUE
    /\ UNCHANGED <<fs, events, running, lock, poisoned, streak, nchanges, nboots,
                   descriptors, watching>>
    /\ UNCHANGED dvars

(* main: Watcher::add of the pair, whose recheck spawns the bootstrap walk; *)
(* the watch loop starts after it                                           *)
Add(wp) ==
    /\ configured
    /\ ~watching
    /\ Spawn(NewTask("bootstrap", "create", NoPath, wp, TRUE))
    /\ descriptors' = descriptors \cup {wp}
    /\ watching' = TRUE
    /\ nboots' = nboots + 1
    /\ UNCHANGED <<config, fs, events, lock, poisoned, streak, nchanges, configured>>
    /\ UNCHANGED dvars

(* the idle process is stopped and started again: the destination tree     *)
(* stays, the policy is loaded anew                                        *)
Restart ==
    /\ watching
    /\ running = << >>
    /\ events = << >>
    /\ nboots < MaxBoots
    /\ watching' = FALSE
    /\ descriptors' = {}
    /\ running' = << >>
    /\ events' = << >>
    /\ lock' = 0
    /\ poisoned' = FALSE
    /\ UNCHANGED <<config, fs, streak, nchanges, nboots, configured>>
    /\ UNCHANGED dvars

(* mutation of Watch: the event delivered last is taken first *)
Watch_Last ==
    /\ watching
    /\ events # << >>
    /\ LET event == events[Len(events)]
       IN  Spawn(NewTask("event", Class(event.mask), event.path, event.wp, FALSE))
    /\ events' = SubSeq(events, 1, Len(events) - 1)
    /\ streak' = 0
    /\ UNCHANGED <<config, fs, lock, poisoned, nchanges, nboots, descriptors,
                   configured, watching>>
    /\ UNCHANGED dvars

(* Watcher::watch: take the next event and spawn do_action for it *)
Watch ==
    /\ watching
    /\ events # << >>
    /\ LET event == Head(events)
       IN  Spawn(NewTask("event", Class(event.mask), event.path, event.wp, FALSE))
    /\ events' = Tail(events)
    /\ streak' = 0
    /\ UNCHANGED <<config, fs, lock, poisoned, nchanges, nboots, descriptors, configured, watching>>
    /\ UNCHANGED dvars

(* Watcher::check_f: the walk reaches the next file of the source tree and *)
(* calls do_action for it, or finds no more and ends                       *)
CheckF(id) ==
    /\ id \in DOMAIN running
    /\ running[id].pc = "walk"
    /\ LET t == running[id]
           todo == { f \in SrcTree : f.root = t.wp.src /\ f \notin t.visited
                                      /\ InDir(f) /\ ~is_dir(f) }
       IN  IF todo # {}
           THEN /\ \E f \in todo :
                     running' = [running EXCEPT ![id] =
                         [t EXCEPT !.f = f, !.visited = t.visited \cup {f},
                                   !.pc = "start"]]
                /\ streak' = streak
           ELSE /\ running' = Drop(running, id)
                /\ streak' = IF t.quiet /\ t.fails = 0 THEN streak + 1 ELSE 0
    /\ UNCHANGED <<config, fs, events, lock, poisoned, nchanges, nboots, descriptors, configured, watching>>
    /\ UNCHANGED dvars

----------------------------------------------------------------------------
(* Watcher::do_action *)

(* mutation of DoAction: a delete that finds no entry goes on as a create *)
DoAction_DeleteFallsThrough(id) ==
    /\ id \in DOMAIN running
    /\ running[id].pc = "start"
    /\ LET t == running[id]
           dst == Rebase(t.f, t.wp.dst)
           tk == [t EXCEPT !.dst = dst]
       IN  IF ~strip_prefix(t.f, t.wp.src)
           THEN Return(id, t, "skip", "ok")
           ELSE IF SamePath(dst, t.f)
           THEN Return(id, t, "skip", "ok")
           ELSE IF t.action = "delete"
           THEN IF fs[dst].kind = "none"
                THEN /\ running' = [running EXCEPT ![id] = [tk EXCEPT !.pc = "exists"]]
                ELSE /\ running' = [running EXCEPT ![id] = [tk EXCEPT !.pc = "remove"]]
           ELSE IF t.action = "create"
           THEN IF is_dir(t.f)
                THEN Return(id, tk, "skip", "ok")
                ELSE /\ running' = [running EXCEPT ![id] = [tk EXCEPT !.pc = "exists"]]
           ELSE Return(id, t, "skip", "ok")
    /\ UNCHANGED <<config, fs, events, lock, poisoned, streak, nchanges, nboots, descriptors, configured, watching>>
    /\ UNCHANGED dvars

(* entry of do_action: strip_prefix, the self-path guard, the event kind,  *)
(* then the first filesystem query of the branch taken: symlink_metadata   *)
(* in Watcher::delete, Watcher::is_dir otherwise                           *)
DoAction(id) ==
    /\ id \in DOMAIN running
    /\ running[id].pc = "start"
    /\ LET t == running[id]
           dst == Rebase(t.f, t.wp.dst)
           tk == [t EXCEPT !.dst = dst]
       IN  IF ~strip_prefix(t.f, t.wp.src)
           THEN Return(id, t, "skip", "ok")
           ELSE IF SamePath(dst, t.f)
           THEN Return(id, t, "skip", "ok")
           ELSE IF t.action = "delete"
           THEN IF fs[dst].kind = "none"
                THEN Return(id, tk, "delete", "err")
                ELSE /\ running' = [running EXCEPT ![id] = [tk EXCEPT !.pc = "remove"]]
           ELSE IF t.action = "create"
           THEN IF is_dir(t.f)
                THEN Return(id, tk, "skip", "ok")
                ELSE /\ running' = [running EXCEPT ![id] = [tk EXCEPT !.pc = "exists"]]
           ELSE Return(id, t, "skip", "ok")
    /\ UNCHANGED <<config, fs, events, lock, poisoned, streak, nchanges, nboots, descriptors, configured, watching>>
    /\ UNCHANGED dvars

(* Watcher::delete: remove_file / remove_dir_all of the destination entry *)
Delete(id) ==
    /\ id \in DOMAIN running
    /\ running[id].pc = "remove"
    /\ LET t == running[id]
       IN  IF fs[t.dst].kind = "none"
           THEN /\ fs' = fs
                /\ Return(id, t, "delete", "err")
           ELSE /\ fs' = [p \in DOMAIN fs |->
                           IF p = t.dst \/ (fs[t.dst].kind = "dir" /\ Parent(p) = t.dst)
                           THEN Absent ELSE fs[p]]
                /\ Return(id, t, "delete", "ok")
    /\ UNCHANGED <<config, events, lock, poisoned, streak, nchanges, nboots, descriptors, configured, watching>>
    /\ UNCHANGED dvars

(* mutation of CheckExists: an existing destination ends the handler of a *)
(* live event as well                                                      *)
CheckExists_Always(id) ==
    /\ id \in DOMAIN running
    /\ running[id].pc = "exists"
    /\ LET t == running[id]
       IN  IF Exists(t.dst)
           THEN Return(id, t, "skip", "ok")
           ELSE /\ running' = [running EXCEPT ![id] = [t EXCEPT !.pc = "lock"]]
    /\ UNCHANGED <<config, fs, events, lock, poisoned, streak, nchanges, nboots,
                   descriptors, configured, watching>>
    /\ UNCHANGED dvars

(* dst.exists() && check_exists *)
CheckExists(id) ==
    /\ id \in DOMAIN running
    /\ running[id].pc = "exists"
    /\ LET t == running[id]
       IN  IF Exists(t.dst) /\ t.check_exists
           THEN Return(id, t, "skip", "ok")
           ELSE /\ running' = [running EXCEPT ![id] = [t EXCEPT !.pc = "lock"]]
    /\ UNCHANGED <<config, fs, events, lock, poisoned, streak, nchanges, nboots, descriptors, configured, watching>>
    /\ UNCHANGED dvars

(* mutation of Get: the policy is read without waiting for the lock *)
Get_NoLock(id) ==
    /\ id \in DOMAIN running
    /\ running[id].pc = "lock"
    /\ LET t == running[id]
           c == IF fs[t.f].kind = "file" THEN fs[t.f].content ELSE ""
           ts == MediaFileTasksNew(StreamsOf(c), config)
       IN  IF poisoned
           THEN /\ Return(id, t, "skip", "panic")
                /\ lock' = lock
           ELSE /\ running' = [running EXCEPT ![id] =
                       IF Probes(c) /\ MediaFileNeedToTranscode(config, ts, t.f.ext)
                       THEN [t EXCEPT !.pc = "open", !.content = c]
                       ELSE [t EXCEPT !.pc = "link", !.content = c]]
                /\ lock' = id
    /\ UNCHANGED <<config, fs, events, poisoned, streak, nchanges, nboots, descriptors, configured, watching>>
    /\ UNCHANGED dvars

(* Transcoder::get, CONFIG.lock().unwrap(), which panics on a poisoned     *)
(* mutex; then Transcoder::transcode up to the branch: MediaFile::new      *)
(* probes the source, MediaFileTasks::new and need_to_transcode decide     *)
Get(id) ==
    /\ id \in DOMAIN running
    /\ running[id].pc = "lock"
    /\ lock = 0
    /\ LET t == running[id]
           c == IF fs[t.f].kind = "file" THEN fs[t.f].content ELSE ""
           ts == MediaFileTasksNew(StreamsOf(c), config)
       IN  IF poisoned
           THEN /\ Return(id, t, "skip", "panic")
                /\ lock' = lock
           ELSE /\ running' = [running EXCEPT ![id] =
                       IF Probes(c) /\ MediaFileNeedToTranscode(config, ts, t.f.ext)
                       THEN [t EXCEPT !.pc = "open", !.content = c]
                       ELSE [t EXCEPT !.pc = "link", !.content = c]]
                /\ lock' = id
    /\ UNCHANGED <<config, fs, events, poisoned, streak, nchanges, nboots, descriptors, configured, watching>>
    /\ UNCHANGED dvars

(* mutation of Symlink: the link replaces whatever the path holds *)
Symlink_Overwrite(f, src, dst, by) == [f EXCEPT ![dst] = Link(src, by)]

(* std::os::unix::fs::symlink(src, dst): fails when dst holds an entry *)
Symlink(f, src, dst, by) ==
    IF f[dst].kind = "none" THEN [f EXCEPT ![dst] = Link(src, by)] ELSE f

(* the link branch, <&Path as TranscoderImpl>::transcode *)
LinkBranch(id) ==
    /\ id \in DOMAIN running
    /\ running[id].pc = "link"
    /\ LET t == running[id]
       IN  IF PrepareOk(fs, t.dst)
           THEN /\ fs' = Symlink(PrepareDirs(fs, t.dst, t.kind), t.f, t.dst, t.kind)
                /\ Return(id, t, "link", IF fs[t.dst].kind = "none" THEN "ok" ELSE "err")
           ELSE /\ fs' = fs
                /\ Return(id, t, "link", "err")
    /\ lock' = 0
    /\ UNCHANGED <<config, events, poisoned, streak, nchanges, nboots, descriptors, configured, watching>>
    /\ UNCHANGED dvars

(* the transcode branch up to the packets: ffmpeg::format::output(&dst_p)? *)
(* opens the output for writing (through a symbolic link, if dst_p is      *)
(* one), MediaOutputTasks::new(..)? builds the per-stream tasks. An error  *)
(* of either leaves through `?`; a codec without encoder panics while the  *)
(* guard is held                                                           *)
OpenOutput(id, fail) ==
    /\ id \in DOMAIN running
    /\ running[id].pc = "open"
    /\ fail \in {"none", "open", "build"}
    /\ LET t == running[id]
           dst_p == IF Len(config.supported_formats) > 0
                    THEN with_extension(t.dst, config.supported_formats[1])
                    ELSE t.dst
           tk == [t EXCEPT !.dst_p = dst_p]
           streams == StreamsOf(t.content)
           out == MediaOutputTasksNew(MediaFileTasksNew(streams, config), streams)
           prepared == PrepareDirs(fs, t.dst, t.kind)
           opened == [prepared EXCEPT ![Resolve(dst_p)] = File("partial", t.f, t.kind)]
       IN  IF ~PrepareOk(fs, t.dst)
           THEN /\ fs' = fs
                /\ lock' = 0
                /\ poisoned' = poisoned
                /\ Return(id, tk, "transcode", "err")
           ELSE IF fail = "open"
           THEN /\ fs' = prepared
                /\ lock' = 0
                /\ poisoned' = poisoned
                /\ Return(id, tk, "transcode", "err")
           ELSE IF \E i \in 1..Len(out) : out[i].panic
           THEN /\ fs' = opened
                /\ lock' = 0
                /\ poisoned' = TRUE
                /\ Return(id, tk, "transcode", "panic")
           ELSE IF fail = "build"
           THEN /\ fs' = opened
                /\ lock' = 0
                /\ poisoned' = poisoned
                /\ Return(id, tk, "transcode", "err")
           ELSE /\ fs' = opened
                /\ running' = [running EXCEPT ![id] = [tk EXCEPT !.pc = "write"]]
                /\ UNCHANGED <<lock, poisoned>>
    /\ UNCHANGED <<config, events, streak, nchanges, nboots, descriptors, configured, watching>>
    /\ UNCHANGED dvars

(* MediaOutputTasks::transcode: header, packets, trailer; on failure       *)
(* fs::remove_file(dst_p), then the backup symlink at dst if configured    *)
TranscodePackets(id, fail) ==
    /\ id \in DOMAIN running
    /\ running[id].pc = "write"
    /\ LET t == running[id]
           p == Resolve(t.dst_p)
           removed == [fs EXCEPT ![t.dst_p] = Absent]
       IN  IF fail
           THEN /\ fs' = IF config.backup_symlink
                         THEN Symlink(removed, t.f, t.dst, t.kind)
                         ELSE removed
                /\ Return(id, t, "transcode", "err")
           ELSE /\ fs' = IF fs[p] = File("partial", t.f, t.kind)
                         THEN [fs EXCEPT ![p] = File("output", t.f, t.kind)]
                         ELSE fs
                /\ Return(id, t, "transcode", "ok")
    /\ lock' = 0
    /\ UNCHANGED <<config, events, poisoned, streak, nchanges, nboots, descriptors, configured, watching>>
    /\ UNCHANGED dvars

----------------------------------------------------------------------------
(* The mirror controller *)

ControllerConfigs ==
    { MkConfig(formats, <<CodecByName("h264"), CodecByName("aac")>>,
               {[what |-> [type |-> "Audio", language |-> NoLang], level |-> "All"]},
               backup) :
        formats \in {<<"mp4">>}, backup \in BOOLEAN }

PolicyIdle ==
    /\ input = <<>>
    /\ src_ext = NoExt
    /\ phase = "off"
    /\ tasks = <<>>
    /\ need = FALSE
    /\ plan = <<>>

ControllerIdle ==
    /\ fs = [p \in AllPaths |-> Absent]
    /\ events = << >>
    /\ running = << >>
    /\ lock = 0
    /\ poisoned = FALSE
    /\ streak = 0
    /\ nchanges = 0
    /\ nboots = 0
    /\ descriptors = {}
    /\ configured = TRUE
    /\ watching = FALSE

(* the state after main() has set the policy: a source tree with some      *)
(* files, an empty destination                                             *)
Init ==
    /\ config \in ControllerConfigs
    /\ PolicyIdle
    /\ \E present \in SUBSET SrcFiles :
          \E c \in [present -> Contents] :
             fs = [p \in AllPaths |-> IF p \in present THEN File(c[p], NoPath, "") ELSE Absent]
    /\ events = << >>
    /\ running = << >>
    /\ lock = 0
    /\ poisoned = FALSE
    /\ streak = 0
    /\ nchanges = 0
    /\ nboots = 0
    /\ descriptors = {}
    /\ configured = TRUE
    /\ watching = FALSE

Next ==
    \/ \E f \in SrcFiles, c \in Contents, m \in CreateMask : ExtCreate(f, c, m)
    \/ \E f \in SrcFiles, c \in Contents : ExtRewrite(f, c)
    \/ \E f \in SrcFiles, m \in DeleteMask : ExtRemove(f, m)
    \/ \E wp \in WatchPairs : Add(wp)
    \/ Watch
    \/ \E id \in TaskIds : CheckF(id)
    \/ \E id \in TaskIds : DoAction(id)
    \/ \E id \in TaskIds : Delete(id)
    \/ \E id \in TaskIds : CheckExists(id)
    \/ \E id \in TaskIds : Get(id)
    \/ \E id \in TaskIds : LinkBranch(id)
    \/ \E id \in TaskIds, fail \in {"none", "open", "build"} : OpenOutput(id, fail)
    \/ \E id \in TaskIds, fail \in BOOLEAN : TranscodePackets(id, fail)

Spec == Init /\ [][Next]_vars

(* the controller started over and over on a source tree nobody changes *)
NextRestart ==
    \/ \E wp \in WatchPairs : Add(wp)
    \/ Restart
    \/ \E id \in TaskIds : CheckF(id)
    \/ \E id \in TaskIds : DoAction(id)
    \/ \E id \in TaskIds : CheckExists(id)
    \/ \E id \in TaskIds : Get(id)
    \/ \E id \in TaskIds : LinkBranch(id)
    \/ \E id \in TaskIds, fail \in {"none", "open", "build"} : OpenOutput(id, fail)
    \/ \E id \in TaskIds, fail \in BOOLEAN : TranscodePackets(id, fail)

SpecRestart == Init /\ [][NextRestart]_vars

(* the controller under several policies: supported-formats empty or not,  *)
(* supported-codecs naming a codec ffmpeg has no encoder for or not        *)
PolicyConfigs ==
    { MkConfig(formats, codecs,
               {[what |-> [type |-> "Audio", language |-> NoLang], level |-> "All"]},
               backup) :
        formats \in {<<>>, <<"mp4">>},
        codecs \in { <<CodecByName("h264"), CodecByName("aac")>>,
                     <<CodecByName("h264"), CodecByName("atrac3")>> },
        backup \in BOOLEAN }

(* the state after main() has set the policy, on an empty source tree *)
InitPolicies ==
    /\ config \in PolicyConfigs
    /\ PolicyIdle
    /\ ControllerIdle

SpecPolicies == InitPolicies /\ [][Next]_vars

(* the controller started on either kind of pair: the mirror src -> dst,  *)
(* or the source tree paired with itself                                   *)
NextPairs ==
    \/ \E f \in SrcFiles, c \in Contents, m \in CreateMask : ExtCreate(f, c, m)
    \/ \E f \in SrcFiles, c \in Contents : ExtRewrite(f, c)
    \/ \E f \in SrcFiles, m \in DeleteMask : ExtRemove(f, m)
    \/ \E wp \in WatchPairs \cup SelfPairs : Add(wp)
    \/ Watch
    \/ \E id \in TaskIds : CheckF(id)
    \/ \E id \in TaskIds : DoAction(id)
    \/ \E id \in TaskIds : Delete(id)
    \/ \E id \in TaskIds : CheckExists(id)
    \/ \E id \in TaskIds : Get(id)
    \/ \E id \in TaskIds : LinkBranch(id)
    \/ \E id \in TaskIds, fail \in {"none", "open", "build"} : OpenOutput(id, fail)
    \/ \E id \in TaskIds, fail \in BOOLEAN : TranscodePackets(id, fail)

SpecPairs == Init /\ [][NextPairs]_vars

(* the process from the start of main: CONFIG holds the default policy,   *)
(* the source tree is empty                                                *)
InitStartup ==
    /\ config = DefaultConfig
    /\ PolicyIdle
    /\ fs = [p \in AllPaths |-> Absent]
    /\ events = << >>
    /\ running = << >>
    /\ lock = 0
    /\ poisoned = FALSE
    /\ streak = 0
    /\ nchanges = 0
    /\ nboots = 0
    /\ descriptors = {}
    /\ configured = FALSE
    /\ watching = FALSE

NextStartup ==
    \/ \E c \in ControllerConfigs : Set(c)
    \/ Next

SpecStartup == InitStartup /\ [][NextStartup]_vars

----------------------------------------------------------------------------
(* The decision of one requirement over one inventory *)

InitVerdict ==
    /\ \E codecs \in CodecLists, r \in Requirements :
          config = MkConfig(<<>>, codecs, {r}, FALSE)
    /\ input \in Inventories
    /\ src_ext = NoExt
    /\ phase = "new"
    /\ tasks = <<>>
    /\ need = FALSE
    /\ plan = <<>>
    /\ ControllerIdle

(* Input::transcode up to the branch: build the tasks, decide, plan *)
Decide ==
    /\ phase = "new"
    /\ phase' = "done"
    /\ tasks' = MediaFileTasksNew(input, config)
    /\ need' = MediaFileNeedToTranscode(config, tasks', src_ext)
    /\ plan' = IF need' THEN MediaOutputTasksNew(tasks', input) ELSE <<>>
    /\ UNCHANGED <<config, input, src_ext>>
    /\ UNCHANGED cvars

NextVerdict == Decide

SpecVerdict == InitVerdict /\ [][NextVerdict]_vars

----------------------------------------------------------------------------
(* The decision of a whole policy over one file *)

SampleInventories ==
    { <<>>,
      <<Stream("mp3", "eng")>>,
      <<Stream("h264", NoLang), Stream("aac", "eng")>>,
      <<Stream("aac", "eng"), Stream("mp3", "rus")>>,
      <<Stream("h264", NoLang), Stream("mp3", "eng"), Stream("subrip", "eng")>> }

SampleCodecLists ==
    { <<>>,
      <<CodecByName("h264")>>,
      <<CodecByName("aac")>>,
      <<CodecByName("h264"), CodecByName("aac")>> }

InitDecision ==
    /\ \E formats \in SeqsUpTo(RawFormats, MaxFormats),
          codecs \in SampleCodecLists,
          required \in SubsetsUpTo(Requirements, MaxReq) :
          config = MkConfig(formats, codecs, required, FALSE)
    /\ input \in SampleInventories
    /\ src_ext \in Extensions
    /\ phase = "new"
    /\ tasks = <<>>
    /\ need = FALSE
    /\ plan = <<>>
    /\ ControllerIdle

NextDecision == Decide

SpecDecision == InitDecision /\ [][NextDecision]_vars

----------------------------------------------------------------------------
(* Properties of the decision engine *)

Done == phase = "done"

SupportedSet == Range(config.supported_codecs)

(* the streams of the input a requirement matches *)
Matched(r) == { i \in 1..Len(input) : RequirementEqStream(r, input[i]) }

(* a stream is compliant when its codec is among supported-codecs *)
Compliant(i) == input[i].codec \in SupportedSet

(* some supported codec has the media kind of the stream *)
KindSupported(i) == \E c \in SupportedSet : c.medium = input[i].codec.medium

(* the requirement's verdict, as the engine computed it for task list k *)
Verdict(k) == RequirementNeedToTranscode(tasks[k])

(* C7, as stated: a requirement of level All reports true exactly when a   *)
(* stream it matches has a codec outside supported-codecs.                 *)
C7_AsStated ==
    Done => \A k \in 1..Len(tasks) :
        tasks[k].requirement.level = "All" =>
            (Verdict(k) <=> \E i \in Matched(tasks[k].requirement) : ~Compliant(i))

(* C7, amended: a requirement of level All reports true exactly when a     *)
(* stream it matches has a codec outside supported-codecs while some       *)
(* supported codec has that stream's media kind; false when nothing        *)
(* matches and when every matched stream is compliant.                     *)
C7_AllVerdict ==
    Done => \A k \in 1..Len(tasks) :
        tasks[k].requirement.level = "All" =>
            LET m == Matched(tasks[k].requirement)
            IN  /\ Verdict(k) <=> \E i \in m : ~Compliant(i) /\ KindSupported(i)
                /\ m = {} => ~Verdict(k)
                /\ (\A i \in m : Compliant(i)) => ~Verdict(k)

C7_Witness ==
    /\ Done
    /\ \E k \in 1..Len(tasks) :
          /\ tasks[k].requirement.level = "All"
          /\ Verdict(k)
          /\ \E i, j \in Matched(tasks[k].requirement) : Compliant(i) /\ ~Compliant(j)

(* C8, as stated: a requirement of level AtLeastOne reports true exactly   *)
(* when it matches a stream and no matched stream is compliant.            *)
C8_AsStated ==
    Done => \A k \in 1..Len(tasks) :
        tasks[k].requirement.level = "AtLeastOne" =>
            LET m == Matched(tasks[k].requirement)
            IN  Verdict(k) <=> (m # {} /\ \A i \in m : ~Compliant(i))

(* C8, amended: a requirement of level AtLeastOne reports true exactly     *)
(* when it matches a stream whose media kind has a supported codec and no  *)
(* matched stream is compliant; false when nothing matches and when any    *)
(* matched stream is compliant, wherever that stream stands in the input.  *)
C8_AtLeastOneVerdict ==
    Done => \A k \in 1..Len(tasks) :
        tasks[k].requirement.level = "AtLeastOne" =>
            LET m == Matched(tasks[k].requirement)
            IN  /\ Verdict(k) <=>
                      /\ \E i \in m : KindSupported(i)
                      /\ \A i \in m : ~Compliant(i)
                /\ m = {} => ~Verdict(k)
                /\ (\E i \in m : Compliant(i)) => ~Verdict(k)

C8_Witness ==
    /\ Done
    /\ \E k \in 1..Len(tasks) :
          /\ tasks[k].requirement.level = "AtLeastOne"
          /\ ~Verdict(k)
          /\ \E i, j \in Matched(tasks[k].requirement) :
                i < j /\ ~Compliant(i) /\ Compliant(j)

(* C9: a requirement of level WithOther, Ignore or Decline reports false   *)
(* whatever streams it matches and whatever their actions, so the file     *)
(* decision of a policy holding only such a requirement is false; Decline  *)
(* decides as Ignore does.                                                 *)
C9_PassiveLevels ==
    Done => \A k \in 1..Len(tasks) :
        LET r == tasks[k].requirement
        IN  r.level \in {"WithOther", "Ignore", "Decline"} =>
                /\ ~Verdict(k)
                /\ (config.required = {r} /\ src_ext = NoExt) => ~need
                /\ r.level = "Decline" =>
                      Verdict(k) = RequirementNeedToTranscode(
                          [tasks[k] EXCEPT !.requirement.level = "Ignore"])

C9_Witness ==
    /\ Done
    /\ \E k \in 1..Len(tasks) :
          /\ tasks[k].requirement.level = "Decline"
          /\ \E j \in 1..Len(tasks[k].tasks) : tasks[k].tasks[j].action.kind = "Transcode"
          /\ config.required = {tasks[k].requirement}
          /\ ~need

(* the first supported codec of the stream's media kind that can encode *)
FirstEncodable(i) ==
    LET ok == { j \in 1..Len(config.supported_codecs) :
                   /\ config.supported_codecs[j].medium = input[i].codec.medium
                   /\ config.supported_codecs[j].enc }
    IN  IF ok = {} THEN NoCodec
        ELSE config.supported_codecs[CHOOSE j \in ok : \A k \in ok : j <= k]

(* C10: in the plan of a file that is transcoded, each stream of the       *)
(* input, matched by a requirement or not, is carried unchanged            *)
(* (Supported) if its codec is among supported-codecs, else re-encoded to  *)
(* the first supported codec of the stream's media kind that can encode.   *)
C10_PerStreamAction ==
    (Done /\ need) => \A i \in 1..Len(input) :
        /\ Compliant(i) => ~plan[i].need_to_transcode
        /\ (~Compliant(i) /\ FirstEncodable(i) # NoCodec) =>
              /\ plan[i].need_to_transcode
              /\ plan[i].encodec = FirstEncodable(i)

(* MediaOutputTasks::new returns: no encoder::find(..).unwrap() panicked *)
PlanBuilt == \A j \in 1..Len(plan) : ~plan[j].panic

(* the streams of the input the plan holds a StreamOutputTask for: each    *)
(* gets an output stream, and process_packet writes its packets            *)
Carried == { plan[j].input_index : j \in 1..Len(plan) }

(* C11: in the plan of a file that is transcoded, a stream whose codec is  *)
(* not among supported-codecs and whose media kind has no supported codec  *)
(* is omitted: it has no output task and is not carried to the output.     *)
C11_UnmatchedOmitted ==
    (Done /\ need /\ PlanBuilt) =>
        \A i \in 1..Len(input) :
            (~Compliant(i) /\ ~KindSupported(i)) => i \notin Carried

----------------------------------------------------------------------------
(* Properties of the file-level decision *)

Formats == Range(config.supported_formats)

SomeVerdict == \E k \in 1..Len(tasks) : Verdict(k)

C5_EmptyFormats ==
    (Done /\ config.supported_formats = <<>>) => (need <=> SomeVerdict)

(* the streams among those r matches that no more specific requirement of  *)
(* the policy (same kind, language-qualified where r is not) matches       *)
OwnStreams(r) ==
    { i \in Matched(r) :
        ~\E q \in config.required :
            /\ q.what.type = r.what.type
            /\ q.what.language # NoLang
            /\ r.what.language = NoLang
            /\ i \in Matched(q) }

(* the verdict of requirement k over the tasks of its own streams only *)
OwnVerdict(k) ==
    LET rt == tasks[k]
        own == OwnStreams(rt.requirement)
        keep == { j \in 1..Len(rt.tasks) : rt.tasks[j].stream_index \in own }
        Pick[n \in 0..Len(rt.tasks)] ==
            IF n = 0 THEN <<>>
            ELSE IF n \in keep THEN Append(Pick[n - 1], rt.tasks[n]) ELSE Pick[n - 1]
    IN  RequirementNeedToTranscode([rt EXCEPT !.tasks = Pick[Len(rt.tasks)]])

(* C6: a stream matched by a language-qualified and by a language-agnostic *)
(* requirement counts in the file decision through the language-qualified  *)
(* one only: in a supported container the file needs transcoding exactly   *)
(* when some requirement's verdict over the streams no more specific       *)
(* requirement claims is true.                                             *)
C6_Priority ==
    (Done /\ src_ext # NoExt /\ to_lowercase(src_ext) \in Formats) =>
        (need <=> \E k \in 1..Len(tasks) : OwnVerdict(k))

(* requirement k holds a task whose action is Transcode *)
HasTranscode(k) ==
    \E j \in 1..Len(tasks[k].tasks) : tasks[k].tasks[j].action.kind = "Transcode"

(* C12, as stated: if the tasks computed for the file contain any          *)
(* Transcode action, the file-level decision is "needs transcoding".       *)
C12_AsStated ==
    Done => ((\E k \in 1..Len(tasks) : HasTranscode(k)) => need)

(* C12, amended: a Transcode action forces the file-level decision when it *)
(* belongs to a requirement of level All, or when it belongs to a          *)
(* requirement of level AtLeastOne none of whose tasks is Supported. A     *)
(* Transcode action under WithOther, Ignore or Decline, or under           *)
(* AtLeastOne next to a Supported one, does not.                           *)
C12_DecidingTranscode ==
    Done =>
        \A k \in 1..Len(tasks) :
            LET level == tasks[k].requirement.level
                ts == tasks[k].tasks
            IN  /\ (level = "All" /\ HasTranscode(k)) => need
                /\ (level = "AtLeastOne" /\ HasTranscode(k)
                        /\ \A j \in 1..Len(ts) : ts[j].action # Supported) => need

C12_Witness ==
    /\ Done
    /\ src_ext # NoExt
    /\ to_lowercase(src_ext) \in Formats
    /\ Len(tasks) = 2
    /\ tasks[1].requirement.level = "All"
    /\ HasTranscode(1)
    /\ ~Verdict(2)
    /\ need

(* the extensions of the model, grouped by spelling up to letter case *)
CaseClasses == { {"mp4", "MP4"}, {"mkv", "MKV"}, {"avi"} }

SameUpToCase(a, b) == \E cls \in CaseClasses : a \in cls /\ b \in cls

(* C19: when the extension of the file and the configured supported-formats *)
(* entry are equal up to letter case, the container rule does not fire: the *)
(* decision is the disjunction of the requirement verdicts.                 *)
C19_CaseInsensitive ==
    Done =>
        \A raw \in RawFormats :
            (/\ config.supported_formats = deserialize_formats(<<raw>>)
             /\ SameUpToCase(raw, src_ext)) => (need <=> SomeVerdict)

C19_Witness ==
    /\ Done
    /\ src_ext = "mkv"
    /\ config.supported_formats = deserialize_formats(<<"MKV">>)
    /\ input # <<>>
    /\ config.required # {}
    /\ ~need

(* C20: in the order the requirement set is iterated in, a requirement    *)
(* with a language comes before a requirement of the same stream kind      *)
(* without one, whatever their levels; the comparison is a total order     *)
(* that says Equal exactly of equal requirements.                          *)
C20_RequirementOrder ==
    Done =>
        /\ \A k, l \in 1..Len(tasks) :
              LET a == tasks[k].requirement
                  b == tasks[l].requirement
              IN  (/\ a.what.type = b.what.type
                   /\ a.what.type \in {"Audio", "Subtitle"}
                   /\ a.what.language # NoLang
                   /\ b.what.language = NoLang) =>
                      (k < l /\ RequirementCmp(a, b) = "Less")
        /\ \A a, b \in config.required :
              /\ RequirementCmp(a, b) = "Equal" <=> a = b
              /\ RequirementCmp(a, b) = "Less" <=> RequirementCmp(b, a) = "Greater"
              /\ \A c \in Requirements :
                    (RequirementCmp(a, c) = "Less" /\ RequirementCmp(c, b) = "Less") =>
                        RequirementCmp(a, b) = "Less"
        /\ \A k, l \in 1..Len(tasks) :
              k < l => RequirementCmp(tasks[k].requirement, tasks[l].requirement) = "Less"

C20_Witness ==
    /\ Done
    /\ Len(tasks) = 2
    /\ tasks[1].requirement =
          [what |-> [type |-> "Audio", language |-> "eng"], level |-> "Decline"]
    /\ tasks[2].requirement =
          [what |-> [type |-> "Audio", language |-> NoLang], level |-> "All"]

(* the requirements of the policy that hold a task for stream i *)
TaskHolders(i) ==
    { k \in 1..Len(tasks) :
        \E j \in 1..Len(tasks[k].tasks) : tasks[k].tasks[j].stream_index = i }

(* C21: in the plan handed to the output stage no stream of the input      *)
(* appears twice, even when several requirements hold a task for it.       *)
C21_StreamOnce ==
    Done =>
        \A j, k \in 1..Len(plan) :
            plan[j].input_index = plan[k].input_index => j = k

C21_Witness ==
    /\ Done
    /\ need
    /\ \E i \in 1..Len(input) : Cardinality(TaskHolders(i)) = 2
    /\ Len(plan) = 2

----------------------------------------------------------------------------
(* The bootstrap walk over a source tree with a directory, a file inside it *)
(* and a dangling symbolic link; the destination is empty, nobody changes   *)
(* the source                                                               *)

InitWalk ==
    /\ config \in ControllerConfigs
    /\ PolicyIdle
    /\ \E present \in SUBSET (SrcFiles \cup Nested), dirs \in SUBSET SrcDirs,
          links \in SUBSET SrcLinks :
          /\ \A f \in present : Parent(f) = NoPath \/ Parent(f) \in dirs
          /\ \E c \in [present -> Contents] :
                fs = [p \in AllPaths |->
                         IF p \in present THEN File(c[p], NoPath, "")
                         ELSE IF p \in dirs THEN Dir("")
                         ELSE IF p \in links THEN Link(Gone, "")
                         ELSE Absent]
    /\ events = << >>
    /\ running = << >>
    /\ lock = 0
    /\ poisoned = FALSE
    /\ streak = 0
    /\ nchanges = 0
    /\ nboots = 0
    /\ descriptors = {}
    /\ configured = TRUE
    /\ watching = FALSE

NextWalk ==
    \/ \E wp \in WatchPairs : Add(wp)
    \/ \E id \in TaskIds : CheckF(id)
    \/ \E id \in TaskIds : DoAction(id)
    \/ \E id \in TaskIds : CheckExists(id)
    \/ \E id \in TaskIds : Get(id)
    \/ \E id \in TaskIds : LinkBranch(id)
    \/ \E id \in TaskIds, fail \in {"none", "open", "build"} : OpenOutput(id, fail)
    \/ \E id \in TaskIds, fail \in BOOLEAN : TranscodePackets(id, fail)

SpecWalk == InitWalk /\ [][NextWalk]_vars

(* the controller handed events on directories and on paths outside the    *)
(* source root: both source files are there at the start, the directory is *)
(* not                                                                     *)
InitEvents ==
    /\ config \in ControllerConfigs
    /\ PolicyIdle
    /\ \E c \in [SrcFiles -> {"opaque", "mp3"}], strays \in SUBSET Stray :
          fs = [p \in AllPaths |->
                   IF p \in SrcFiles THEN File(c[p], NoPath, "")
                   ELSE IF p \in strays THEN File("av", NoPath, "")
                   ELSE Absent]
    /\ events = << >>
    /\ running = << >>
    /\ lock = 0
    /\ poisoned = FALSE
    /\ streak = 0
    /\ nchanges = 0
    /\ nboots = 0
    /\ descriptors = {}
    /\ configured = TRUE
    /\ watching = FALSE

NextEvents ==
    \/ \E d \in SrcDirs, m \in CreateMask, populated \in BOOLEAN : ExtMkdir(d, m, populated)
    \/ \E f \in Stray, m \in EventMasks : ExtStray(f, m)
    \/ \E f \in SrcFiles, m \in DeleteMask : ExtRemove(f, m)
    \/ \E wp \in WatchPairs : Add(wp)
    \/ Watch
    \/ \E id \in TaskIds : CheckF(id)
    \/ \E id \in TaskIds : DoAction(id)
    \/ \E id \in TaskIds : Delete(id)
    \/ \E id \in TaskIds : CheckExists(id)
    \/ \E id \in TaskIds : Get(id)
    \/ \E id \in TaskIds : LinkBranch(id)
    \/ \E id \in TaskIds, fail \in {"none", "open", "build"} : OpenOutput(id, fail)
    \/ \E id \in TaskIds, fail \in BOOLEAN : TranscodePackets(id, fail)

SpecEvents == InitEvents /\ [][NextEvents]_vars

----------------------------------------------------------------------------
(* Properties of the mirror controller *)

(* the destination entries of the tree t made of source f by a handler    *)
(* that ran to its end: a link to f, or an output file transcoded from f   *)
ProducedFor(t, f, by) ==
    { p \in DstPaths :
        /\ t[p].target = f
        /\ t[p].by = by
        /\ \/ t[p].kind = "link"
           \/ t[p].kind = "file" /\ t[p].content = "output" }

(* the handler of a delete or moved-out event returns in this step, having *)
(* run with no other task in flight                                        *)
DeleteReturnsAlone(id) ==
    /\ id \in DOMAIN running
    /\ running[id].action = "delete"
    /\ running[id].quiet
    /\ DoAction(id) \/ Delete(id)
    /\ id \notin DOMAIN running'

(* C1: once the handler of a delete or moved-out event for F has returned, *)
(* having run alone, no destination entry that the handler of an earlier   *)
(* create, moved-in or close-after-write event produced for F remains:     *)
(* neither the link at dst_root/suffix nor the transcoded output at the    *)
(* extension-rewritten path.                                               *)
C1_DeletionMirrored ==
    [][ \A id \in TaskIds :
           DeleteReturnsAlone(id) => ProducedFor(fs', running[id].f, "event") = {} ]_vars

(* C2: a bootstrap walk that follows a walk which ran to completion with   *)
(* every file linked or transcoded, over a source tree nobody changed,     *)
(* performs no link and no transcode operation.                            *)
C2_BootstrapIdempotent ==
    \A id \in DOMAIN running :
        running[id].kind = "bootstrap" /\ streak >= 1 => running[id].ops = 0

(* the effective destination of the transcode branch for destination dst *)
EffectiveDst(dst) ==
    IF Len(config.supported_formats) > 0
    THEN with_extension(dst, config.supported_formats[1])
    ELSE dst

(* the transcode branch of task id fails in this step: opening the output, *)
(* building the per-stream tasks, or processing the packets                *)
TranscodeFails(id) ==
    \/ OpenOutput(id, "open")
    \/ OpenOutput(id, "build")
    \/ TranscodePackets(id, TRUE)

(* C3: when the transcode branch chosen for F with destination D fails at  *)
(* any step, then as the handler returns there is no entry at the          *)
(* effective destination D' (unless it is D and holds the backup link),    *)
(* with backup-symlink a link to F stands at D, without it no link is      *)
(* made at D, and the failure is what the caller gets.                     *)
C3_FailureRecovery ==
    [][ \A id \in TaskIds :
           TranscodeFails(id) =>
              LET t == running[id]
                  D == Rebase(t.f, t.wp.dst)
              IN  /\ EffectiveDst(D) # D => fs'[EffectiveDst(D)].kind = "none"
                  /\ config.backup_symlink =>
                        fs'[D].kind = "link" /\ fs'[D].target = t.f
                  /\ ~config.backup_symlink =>
                        IF fs[D].kind = "link" /\ EffectiveDst(D) # D
                        THEN fs'[D] = fs[D]
                        ELSE fs'[D].kind = "none"
                  /\ t.kind = "bootstrap" => running'[id].fails = 1 ]_vars

(* the path of the claim: dst_root joined with the path of f relative to   *)
(* src_root, its extension replaced by ext                                 *)
Mapped(wp, f, ext) == [root |-> wp.dst, name |-> f.name, ext |-> ext]

(* the extension a transcoded output gets under the policy *)
OutputExt(f) ==
    IF config.supported_formats # <<>> THEN config.supported_formats[1] ELSE f.ext

(* C13: the destination a handler works on is dst_root joined with the     *)
(* path of F relative to src_root; the output a transcode step opens is    *)
(* that path with the first entry of supported-formats as its extension,   *)
(* or that very path when supported-formats is empty, and the step writes  *)
(* nowhere but through the path it opened.                                 *)
C13_PathMapping ==
    [][ \A id \in TaskIds :
          /\ (DoAction(id) /\ id \in DOMAIN running'
                  /\ running'[id].pc \in {"remove", "exists"}) =>
                 running'[id].dst = Mapped(running[id].wp, running[id].f, running[id].f.ext)
          /\ (\E fail \in {"none", "open", "build"} : OpenOutput(id, fail)) =>
                 LET t == running[id]
                     out == Mapped(t.wp, t.f, OutputExt(t.f))
                 IN  /\ out \in DstPaths
                     /\ \A p \in AllPaths : fs'[p] # fs[p] => p = Resolve(out)
                     /\ (id \in DOMAIN running' /\ running'[id].pc = "write") =>
                            /\ running'[id].dst_p = out
                            /\ fs'[Resolve(out)].kind = "file"
      ]_vars

C13_Witness ==
    \E id \in DOMAIN running :
        /\ running[id].pc = "write"
        /\ running[id].f = [root |-> "src", name |-> "a", ext |-> "mkv"]
        /\ running[id].dst_p = [root |-> "dst", name |-> "a", ext |-> "mp4"]
        /\ fs[running[id].dst_p].kind = "file"

(* what ffmpeg recognises no container in: bytes that are no media file,  *)
(* or a source that is gone by the time it is opened                       *)
Opaque(c) == c \in {"opaque", ""}

(* C14: a file whose probe fails is taken to the link branch whatever its  *)
(* extension and whatever the policy: the handler that probed it goes on   *)
(* to the symlink, and no transcode step ever works on such a file.        *)
C14_OpaqueLinked ==
    [][ \A id \in TaskIds :
          /\ (Get(id) /\ ~poisoned /\ Opaque(running'[id].content)) =>
                 running'[id].pc = "link"
          /\ (\E fail \in {"none", "open", "build"} : OpenOutput(id, fail)) =>
                 ~Opaque(running[id].content)
          /\ (\E fail \in BOOLEAN : TranscodePackets(id, fail)) =>
                 ~Opaque(running[id].content)
      ]_vars

C14_Witness ==
    \E id \in DOMAIN running :
        /\ running[id].pc = "link"
        /\ running[id].content = "opaque"
        /\ running[id].f.ext = "mkv"
        /\ config.supported_formats = <<"mp4">>

(* C15: whatever happened to the handlers of earlier events, a handler    *)
(* that reaches its Transcode-or-Link step enters it: once it has the      *)
(* policy it goes on to the symlink or to the transcode of its own file.   *)
C15_ErrorConfinement ==
    [][ \A id \in TaskIds :
          Get(id) =>
             /\ id \in DOMAIN running'
             /\ running'[id].pc \in {"link", "open"}
      ]_vars

(* C16: when the handler of an event for F finds a destination entry for   *)
(* F (a link at D, or a finished transcoded file at D') and completes, the *)
(* destination holds exactly one entry for F: after                        *)
(* the link branch the link D -> F and nothing at D', after a successful   *)
(* transcode the transcoded file at D' and nothing at D.                   *)
C16_ReplacementOnRewrite ==
    [][ \A id \in TaskIds :
          LET t == running[id]
              D == Rebase(t.f, t.wp.dst)
              DP == EffectiveDst(D)
          IN  /\ (LinkBranch(id) /\ t.kind = "event"
                     /\ (fs[D].kind = "link" \/ fs[DP].content = "output")) =>
                    /\ fs'[D].kind = "link"
                    /\ fs'[D].target = t.f
                    /\ DP # D => fs'[DP].kind = "none"
              /\ (TranscodePackets(id, FALSE) /\ t.kind = "event"
                     /\ fs[D].kind = "link") =>
                    /\ fs'[DP].kind = "file"
                    /\ fs'[DP].content = "output"
                    /\ fs'[DP].target = t.f
                    /\ DP # D => fs'[D].kind = "none"
      ]_vars

(* the task works on a file whose composed destination is the file itself *)
OnSelfPath(t) == t.f # NoPath /\ Mapped(t.wp, t.f, t.f.ext) = t.f

(* C17: the handler of an event of any kind whose composed destination     *)
(* equals the source path returns at the guard: it takes no step but the   *)
(* entry of do_action, and that step leaves the filesystem as it is.       *)
C17_SelfPathGuard ==
    [][ \A id \in DOMAIN running :
          OnSelfPath(running[id]) =>
             /\ running[id].pc = "start"
             /\ DoAction(id) =>
                   /\ fs' = fs
                   /\ id \in DOMAIN running' => running'[id].pc = "walk"
      ]_vars

C17_Witness ==
    /\ descriptors = SelfPairs
    /\ nchanges = MaxChanges
    /\ \E f \in SrcFiles : fs[f].kind = "none"
    /\ events = << >>
    /\ running = << >>

(* C18: the policy is written by one step only, the one main takes before *)
(* it adds a watch; until then no watch is added and no task runs, and     *)
(* from then on no step changes the value the readers get.                 *)
C18_PolicySetOnce ==
    [][ /\ configured => config' = config
        /\ ~configured => (descriptors = {} /\ running = << >> /\ ~watching)
        /\ config' # config => (configured' /\ descriptors' = {} /\ running' = << >>)
      ]_vars

C18_Witness ==
    /\ configured
    /\ config # DefaultConfig
    /\ nchanges > 0
    /\ \E id \in DOMAIN running :
          running[id].kind = "event" /\ running[id].pc \in {"link", "open", "write"}

(* C23, as stated: a create action of the bootstrap walk whose destination *)
(* entry exists goes back to the walk without a link or a transcode; the   *)
(* handler of a live event goes on to the Transcode-or-Link step whether   *)
(* the entry exists or not.                                                *)
C23_AsStated ==
    [][ \A id \in TaskIds :
          CheckExists(id) =>
             LET t == running[id]
             IN  /\ (t.kind = "bootstrap" /\ fs[t.dst].kind # "none") =>
                        (id \in DOMAIN running' /\ running'[id].pc = "walk" /\ fs' = fs)
                 /\ t.kind = "event" =>
                        (id \in DOMAIN running' /\ running'[id].pc = "lock")
      ]_vars

(* C23, amended: the short-circuit is taken by a bootstrap action whose    *)
(* destination path leads to an existing file, a symbolic link there being *)
(* followed; a bootstrap action that finds no entry, or a link whose       *)
(* target is gone, goes on to the Transcode-or-Link step, as the handler   *)
(* of a live event always does.                                            *)
C23_ExistsShortCircuit ==
    [][ \A id \in TaskIds :
          CheckExists(id) =>
             LET t == running[id]
                 entry == fs[t.dst]
                 found == \/ entry.kind = "file"
                          \/ entry.kind = "link" /\ fs[entry.target].kind # "none"
             IN  /\ (t.kind = "bootstrap" /\ found) =>
                        (id \in DOMAIN running' /\ running'[id].pc = "walk" /\ fs' = fs)
                 /\ (t.kind = "bootstrap" /\ ~found) =>
                        (id \in DOMAIN running' /\ running'[id].pc = "lock")
                 /\ t.kind = "event" =>
                        (id \in DOMAIN running' /\ running'[id].pc = "lock")
      ]_vars

C23_Witness ==
    \E id \in DOMAIN running, f \in SrcFiles :
        /\ running[id].kind = "bootstrap"
        /\ running[id].pc = "walk"
        /\ running[id].visited = {f}
        /\ running[id].ops = 0
        /\ fs[Rebase(f, running[id].wp.dst)].kind = "link"
        /\ fs[Rebase(f, running[id].wp.dst)].by = "event"
        /\ fs[f].kind = "file"

(* C24: the watch loop spawns one task per event, for the event delivered  *)
(* first among those waiting; no other step spawns an event task or takes  *)
(* an event out of the queue, so the tasks of two events on one path are   *)
(* spawned in the order of the events.                                     *)
C24_SpawnOrder ==
    [][ LET new == DOMAIN running' \ DOMAIN running
        IN  /\ Watch =>
                  /\ events' = Tail(events)
                  /\ Cardinality(new) = 1
                  /\ \A id \in new :
                        /\ running'[id].kind = "event"
                        /\ running'[id].pc = "start"
                        /\ running'[id].f = Head(events).path
                        /\ running'[id].action = Class(Head(events).mask)
            /\ ~Watch =>
                  /\ Len(events') >= Len(events)
                  /\ SubSeq(events', 1, Len(events)) = events
                  /\ \A id \in new : running'[id].kind = "bootstrap"
      ]_vars

(* the handler of the later of two events on one path has completed while  *)
(* the handler of the earlier one has not yet begun                        *)
C24_Witness ==
    /\ nchanges = 2
    /\ events = << >>
    /\ \E f \in SrcFiles :
          /\ fs[f].kind = "none"
          /\ \E id \in DOMAIN running :
                /\ running[id].kind = "event"
                /\ running[id].action = "create"
                /\ running[id].f = f
                /\ running[id].pc = "start"
          /\ \A id \in DOMAIN running :
                running[id].kind = "event" => running[id].action = "create"

C28_SourceUntouched ==
    [][ \A f \in SrcFiles :
          fs'[f] # fs[f] =>
             \/ \E c \in Contents, m \in CreateMask : ExtCreate(f, c, m)
             \/ \E c \in Contents : ExtRewrite(f, c)
             \/ \E m \in DeleteMask : ExtRemove(f, m)
      ]_vars

(* the tasks inside the Transcode-or-Link step: past Transcoder::get and   *)
(* not yet returned from transcode                                         *)
Inside == { id \in DOMAIN running : running[id].pc \in {"link", "open", "write"} }

(* C29: at most one task, event or bootstrap, is inside the                *)
(* Transcode-or-Link step, and it is the holder of the policy lock; the    *)
(* removal step of a delete handler neither waits for the lock nor         *)
(* changes it.                                                             *)
C29_MutualExclusion ==
    [][ /\ Cardinality(Inside) <= 1
        /\ \A id \in Inside : lock = id
        /\ \A id \in TaskIds : Delete(id) => lock' = lock
      ]_vars

(* a delete handler takes its removal step while a transcode is in flight *)
C29_Witness ==
    \E i, j \in DOMAIN running :
        /\ running[i].pc = "write"
        /\ lock = i
        /\ running[j].action = "delete"
        /\ running[j].pc = "remove"
        /\ running[j].dst = running[i].dst_p

(* every event on f has been handled: none waits, no task works on f *)
Settled(f) ==
    /\ \A i \in 1..Len(events) : events[i].path # f
    /\ \A id \in DOMAIN running :
          running[id].f # f /\ (running[id].kind = "bootstrap" => f \in running[id].visited)

(* C30: once the handlers of a create event and of the delete event that   *)
(* followed it for the same file have completed, the file being gone from  *)
(* the source, the destination holds no entry an event handler made for    *)
(* it, neither at D nor at D'.                                             *)
C30_CreateThenDelete ==
    \A f \in SrcFiles :
        (fs[f].kind = "none" /\ Settled(f)) =>
            \A wp \in descriptors :
                \A p \in {Mapped(wp, f, f.ext), Mapped(wp, f, OutputExt(f))} :
                    ~(fs[p].kind # "none" /\ fs[p].by = "event")

(* the handler of task id has ended in this step and has changed nothing:  *)
(* not the filesystem, not another task, no waiting event, not the lock    *)
ReturnsUnchanged(id) ==
    /\ fs' = fs
    /\ running' = Drop(running, id)
    /\ UNCHANGED <<events, lock, poisoned, descriptors, watching, config>>

(* some destination path of f under wp holds an entry *)
HasEntry(wp, f) ==
    \/ fs[Mapped(wp, f, f.ext)].kind # "none"
    \/ fs[Mapped(wp, f, OutputExt(f))].kind # "none"

C26_StrayIgnored ==
    [][ \A id \in TaskIds :
          (DoAction(id) /\ running[id].f.root # running[id].wp.src) =>
             ReturnsUnchanged(id)
      ]_vars

(* two events on a path outside the root have been handled; the entry the *)
(* path would map to is still the one made of the file under the root      *)
C26_Witness ==
    /\ nchanges = MaxChanges
    /\ events = << >>
    /\ running = << >>
    /\ \A d \in SrcDirs : fs[d].kind = "none"
    /\ \A f \in SrcFiles : fs[f].kind = "file"
    /\ \A f \in Stray : fs[f].kind = "file"
    /\ \A wp \in descriptors, f \in Stray :
          /\ fs[Rebase(f, wp.dst)].kind = "link"
          /\ fs[Rebase(f, wp.dst)].target = Rebase(f, wp.src)

(* C27: the handler of a create, moved-in or close-after-write event whose *)
(* path is a directory when the handler looks at it ends there: nothing is *)
(* made in the destination, no directory, no link, no output.              *)
C27_DirectoryIgnored ==
    [][ \A id \in TaskIds :
          (DoAction(id) /\ running[id].action = "create"
                        /\ running[id].f.root = running[id].wp.src
                        /\ fs[running[id].f].kind = "dir") =>
             ReturnsUnchanged(id)
      ]_vars

(* the event of a directory moved in with a file inside has been handled: *)
(* the destination has no entry for the directory                          *)
C27_Witness ==
    /\ nchanges > 0
    /\ events = << >>
    /\ running = << >>
    /\ \A d \in SrcDirs : fs[d].kind = "dir"
    /\ \A f \in Nested : fs[f].kind = "file"
    /\ \A wp \in descriptors, d \in SrcDirs : fs[Rebase(d, wp.dst)].kind = "none"
    /\ descriptors # {}

(* the steps of do_action and of the Transcode-or-Link step task id takes *)
HandlerStep(id) ==
    \/ DoAction(id)
    \/ CheckExists(id)
    \/ Get(id)
    \/ LinkBranch(id)
    \/ \E fail \in {"none", "open", "build"} : OpenOutput(id, fail)
    \/ \E fail \in BOOLEAN : TranscodePackets(id, fail)

(* C31: a step of an action the bootstrap walk dispatched changes no       *)
(* destination entry but one that was missing or that this very action     *)
(* opened as its output: what the destination held before the walk started *)
(* is neither removed nor replaced, a failing transcode included.          *)
C31_BootstrapOnlyAdds ==
    [][ \A id \in TaskIds :
          (HandlerStep(id) /\ running[id].kind = "bootstrap") =>
             \A p \in DstPaths :
                 (fs[p].kind # "none" /\ fs'[p] # fs[p]) =>
                     /\ running[id].pc = "write"
                     /\ fs[p] = File("partial", running[id].f, "bootstrap")
      ]_vars

(* C32: a link step that finds an entry at D, whatever it is, leaves the   *)
(* filesystem as it was and ends with an error; so does the backup link    *)
(* after a failed transcode when D holds an entry.                         *)
C32_LinkNeverOverwrites ==
    [][ \A id \in TaskIds :
          /\ (LinkBranch(id) /\ fs[running[id].dst].kind # "none") =>
                 /\ fs' = fs
                 /\ running[id].kind = "bootstrap" =>
                        (id \in DOMAIN running' /\ running'[id].fails = 1)
                 /\ running[id].kind = "event" => id \notin DOMAIN running'
          /\ (TranscodePackets(id, TRUE) /\ running[id].dst # running[id].dst_p
                                         /\ fs[running[id].dst].kind # "none") =>
                 fs'[running[id].dst] = fs[running[id].dst]
      ]_vars

(* the link step of the bootstrap walk has failed on the link an event    *)
(* handler made for the same file meanwhile; that link is still there      *)
C32_Witness ==
    /\ nchanges = 1
    /\ \E id \in DOMAIN running, f \in SrcFiles :
          /\ running[id].kind = "bootstrap"
          /\ running[id].pc = "walk"
          /\ running[id].visited = {f}
          /\ running[id].fails = 1
          /\ fs[f].content = "opaque"
          /\ fs[Rebase(f, running[id].wp.dst)] = Link(f, "event")

(* C33: the handler of a create, moved-in or close-after-write event, or   *)
(* of a create action of the walk, that finds no readable entry at F when  *)
(* it examines it, ends there: the filesystem is as before, no link is     *)
(* made and no transcode begun.                                            *)
C33_MissingSourceIgnored ==
    [][ \A id \in TaskIds :
          (DoAction(id) /\ running[id].action = "create"
                        /\ running[id].f.root = running[id].wp.src
                        /\ ~OnSelfPath(running[id])
                        /\ \/ fs[running[id].f].kind = "none"
                           \/ fs[running[id].f] = Link(Gone, "")) =>
             /\ fs' = fs
             /\ UNCHANGED <<events, lock, poisoned>>
             /\ running[id].kind = "event" => running' = Drop(running, id)
             /\ running[id].kind = "bootstrap" =>
                    /\ id \in DOMAIN running'
                    /\ running'[id].pc = "walk"
                    /\ running'[id].ops = running[id].ops
                    /\ running'[id].fails = running[id].fails
      ]_vars

(* the walk had come upon a file that was removed before the action for it *)
(* looked at it: the action has returned, the destination has no entry     *)
C33_Witness ==
    /\ nchanges = 1
    /\ \E id \in DOMAIN running, f \in SrcFiles :
          /\ running[id].kind = "bootstrap"
          /\ running[id].pc = "walk"
          /\ running[id].visited = {f}
          /\ running[id].ops = 0
          /\ running[id].fails = 0
          /\ fs[f].kind = "none"
          /\ \A p \in DstPaths : fs[p].kind = "none"

====
